---- MODULE Spec2Model ----
(***************************************************************************)
(* Model of pyrevitlib/pyrevit/userconfig.py: the resolution of the user   *)
(* configuration file, the PyRevitConfig object (construction, the         *)
(* environment synchronizer _update_env, save_changes), the default        *)
(* initializer and the module initialization that binds user_config.       *)
(*                                                                         *)
(* The collaborators that userconfig.py imports (configparser, logger,     *)
(* touch, appdata, upgrade) are modelled by their contract: a sectioned    *)
(* key/value store with typed values, a text file per path, and a logger   *)
(* holding a level and a file-logging flag.                                *)
(***************************************************************************)
EXTENDS Integers, Sequences, FiniteSets, TLC

VARIABLES
    doc_mode,           \* EXEC_PARAMS.doc_mode
    forced_debug_mode,  \* EXEC_PARAMS.forced_debug_mode
    fs,                 \* the files at the three config locations
    admin,              \* the admin directory: is it a directory, its entries
    CONFIG_FILE_PATH,   \* the resolved path ("None" until resolved / in doc mode)
    pc,                 \* position of the module initialization
    user_config,        \* the module-level user_config
    parser,             \* local variable of _get_default_config_parser
    lg,                 \* logger state: level and file-logging flag
    lastOp,             \* the operation the last step performed
    calls,              \* logger and store calls made by the last step
    opRaised,           \* whether the last operation raised to its caller
    nops,               \* number of caller operations after initialization
    hist,               \* what the initialization started from and did
    query               \* the last get_ext_root_dirs: its result, the failed entries

vars == <<doc_mode, forced_debug_mode, fs, admin, CONFIG_FILE_PATH, pc,
          user_config, parser, lg, lastOp, calls, opRaised, nops, hist,
          query>>

\* Bound on the number of set/save operations callers perform after init.
MaxOps == 2

INIT_SETTINGS_SECTION == "core"

-----------------------------------------------------------------------------
(* Typed values of the store: bool | int | list-of-string | string.        *)

B(b) == [t |-> "bool", n |-> IF b THEN 1 ELSE 0, l |-> <<>>]
I(i) == [t |-> "int", n |-> i, l |-> <<>>]
L(seq) == [t |-> "list", n |-> 0, l |-> seq]
S(str) == [t |-> "str", n |-> 0, l |-> <<str>>]

\* Python truth value of a stored value, as `if self.core.debug:` takes it.
Truthy(v) ==
    CASE v.t = "bool" -> v.n = 1
      [] v.t = "int"  -> v.n # 0
      [] v.t = "list" -> Len(v.l) > 0
      [] OTHER        -> v.l[1] # ""

\* The lists of strings the model uses as values of userextensions.
ListUniverse == { <<>>, <<"%APPDATA%/ext">>, <<"C:/ext", "%APPDATA%/ext">> }

\* The integers the model uses as values.
IntUniverse == {0, 10}

RECURSIVE JoinList(_)
JoinList(seq) ==
    IF seq = <<>> THEN ""
    ELSE IF Len(seq) = 1 THEN seq[1]
    ELSE seq[1] \o "," \o JoinList(Tail(seq))

\* Serialization of a value to its token in the file.
Render(v) ==
    CASE v.t = "bool" -> IF v.n = 1 THEN "true" ELSE "false"
      [] v.t = "int"  -> ToString(v.n)
      [] v.t = "list" -> "[" \o JoinList(v.l) \o "]"
      [] OTHER        -> v.l[1]

\* Parsing of a token of the file: booleans are case-insensitive true/false.
Parse(tok) ==
    IF tok \in {"true", "True", "TRUE"} THEN B(TRUE)
    ELSE IF tok \in {"false", "False", "FALSE"} THEN B(FALSE)
    ELSE IF \E i \in IntUniverse : ToString(i) = tok
         THEN I(CHOOSE i \in IntUniverse : ToString(i) = tok)
    ELSE IF \E s \in ListUniverse : Render(L(s)) = tok
         THEN L(CHOOSE s \in ListUniverse : Render(L(s)) = tok)
    ELSE S(tok)

-----------------------------------------------------------------------------
(* The structured store: section name -> key -> value.                     *)

EmptyMap == [x \in {} |-> 0]

Put(f, k, v) == [x \in (DOMAIN f) \cup {k} |-> IF x = k THEN v ELSE f[x]]

HasSection(store, sec) == sec \in DOMAIN store

HasOption(store, sec, key) == HasSection(store, sec) /\ key \in DOMAIN store[sec]

AddSection(store, sec) ==
    IF HasSection(store, sec) THEN store ELSE Put(store, sec, EmptyMap)

SetOption(store, sec, key, val) ==
    LET s == AddSection(store, sec)
    IN  [s EXCEPT ![sec] = Put(@, key, val)]

\* The text of a file that holds the store, and the store a text parses to.
SaveText(store) ==
    [s \in DOMAIN store |-> [k \in DOMAIN store[s] |-> Render(store[s][k])]]

LoadText(text) ==
    [s \in DOMAIN text |-> [k \in DOMAIN text[s] |-> Parse(text[s][k])]]

NoFile == [kind |-> "none", text |-> EmptyMap]
CorruptFile == [kind |-> "corrupt", text |-> EmptyMap]
OkFile(text) == [kind |-> "ok", text |-> text]

Exists(f) == f.kind # "none"

Range(seq) == {seq[i] : i \in DOMAIN seq}

\* Number of occurrences of a call in a sequence of calls.
Count(seq, c) == Cardinality({i \in DOMAIN seq : seq[i] = c})

-----------------------------------------------------------------------------
(* The logger: a level and the file-logging flag.                          *)

reset_level(l) == [l EXCEPT !.level = "default"]
set_debug_mode(l) == [l EXCEPT !.level = "debug"]
set_verbose_mode(l) == [l EXCEPT !.level = "verbose"]
set_file_logging(l, status) == [l EXCEPT !.filelogging = status]

-----------------------------------------------------------------------------
(* PyRevitConfig                                                           *)

\* The try body of _update_env, after the reset: the logger it leaves, the
\* calls it made, and whether an attribute read raised inside it.
EnvBody(store, forced, l0) ==
    LET core == INIT_SETTINGS_SECTION
        has(k) == HasOption(store, core, k)
        lvl == IF forced THEN [lg |-> l0, calls |-> <<>>, exc |-> FALSE]
               ELSE IF ~has("debug")
                    THEN [lg |-> l0, calls |-> <<>>, exc |-> TRUE]
               ELSE IF Truthy(store[core]["debug"])
                    THEN [lg |-> set_debug_mode(l0),
                          calls |-> <<"set_debug_mode", "log.debug:debug_enabled">>,
                          exc |-> FALSE]
               ELSE IF ~has("verbose")
                    THEN [lg |-> l0, calls |-> <<>>, exc |-> TRUE]
               ELSE IF Truthy(store[core]["verbose"])
                    THEN [lg |-> set_verbose_mode(l0),
                          calls |-> <<"set_verbose_mode">>, exc |-> FALSE]
               ELSE [lg |-> l0, calls |-> <<>>, exc |-> FALSE]
    IN  IF lvl.exc THEN lvl
        ELSE IF ~has("filelogging")
             THEN [lvl EXCEPT !.exc = TRUE]
        ELSE [lg |-> set_file_logging(lvl.lg, store[core]["filelogging"]),
              calls |-> Append(lvl.calls, "set_file_logging"),
              exc |-> FALSE]

\* _update_env without the reset of the level.
UpdateEnvNoReset(store, forced, l0) ==
    LET b == EnvBody(store, forced, l0)
    IN  [lg |-> b.lg,
         calls |-> <<"reset_level">> \o b.calls \o
                   (IF b.exc THEN <<"log.debug:env_update_err">> ELSE <<>>),
         raised |-> FALSE]

\* _update_env without the check of the forced debug mode.
UpdateEnvForcedIgnored(store, forced, l0) ==
    LET b == EnvBody(store, FALSE, reset_level(l0))
    IN  [lg |-> b.lg,
         calls |-> <<"reset_level">> \o b.calls \o
                   (IF b.exc THEN <<"log.debug:env_update_err">> ELSE <<>>),
         raised |-> FALSE]

\* _update_env without its except clause.
UpdateEnvNoExcept(store, forced, l0) ==
    LET b == EnvBody(store, forced, reset_level(l0))
    IN  [lg |-> b.lg,
         calls |-> <<"reset_level">> \o b.calls,
         raised |-> b.exc]

\* PyRevitConfig._update_env
UpdateEnv(store, forced, l0) ==
    LET b == EnvBody(store, forced, reset_level(l0))
    IN  [lg |-> b.lg,
         calls |-> <<"reset_level">> \o b.calls \o
                   (IF b.exc THEN <<"log.debug:env_update_err">> ELSE <<>>),
         raised |-> FALSE]

\* The store the parent constructor reads from the file at a path: a missing
\* file gives the empty store, a malformed one raises.
ReadConfig(path, file) ==
    IF path = "None" \/ file.kind = "none"
    THEN [raised |-> FALSE, store |-> EmptyMap]
    ELSE IF file.kind = "corrupt"
    THEN [raised |-> TRUE, store |-> EmptyMap]
    ELSE [raised |-> FALSE, store |-> LoadText(file.text)]

NoConfig == [kind |-> "unbound", path |-> "None", store |-> EmptyMap]
NoneConfig == [kind |-> "None", path |-> "None", store |-> EmptyMap]
Config(path, store) == [kind |-> "cfg", path |-> path, store |-> store]

\* PyRevitConfig.__init__
Construct(path, file, forced, l0) ==
    LET r == ReadConfig(path, file)
        e == UpdateEnv(r.store, forced, l0)
    IN  IF r.raised
        THEN [raised |-> TRUE, cfg |-> NoConfig, lg |-> l0, calls |-> <<"load">>]
        ELSE [raised |-> e.raised, cfg |-> Config(path, r.store), lg |-> e.lg,
              calls |-> <<"load">> \o e.calls]

\* save_changes with the call of _update_env inside the try block.
SaveChangesEnvInTry(cfg, file, saveFails, forced, l0) ==
    LET failed == saveFails \/ cfg.path = "None"
        e == UpdateEnv(cfg.store, forced, l0)
    IN  [file |-> IF failed THEN file ELSE OkFile(SaveText(cfg.store)),
         cfg |-> cfg,
         lg |-> IF failed THEN l0 ELSE e.lg,
         calls |-> <<"save">> \o
                   (IF failed THEN <<"log.error:save_err">> ELSE e.calls),
         raised |-> FALSE]

\* save_changes without its except clause.
SaveChangesPropagates(cfg, file, saveFails, forced, l0) ==
    LET failed == saveFails \/ cfg.path = "None"
        e == UpdateEnv(cfg.store, forced, l0)
    IN  [file |-> IF failed THEN file ELSE OkFile(SaveText(cfg.store)),
         cfg |-> cfg,
         lg |-> IF failed THEN l0 ELSE e.lg,
         calls |-> <<"save">> \o
                   (IF failed THEN <<"log.error:save_err">> ELSE e.calls),
         raised |-> failed]

\* PyRevitConfig.save_changes on the config cfg whose file is `file`.
SaveChangesOp(cfg, file, saveFails, forced, l0) ==
    LET failed == saveFails \/ cfg.path = "None"
        e == UpdateEnv(cfg.store, forced, l0)
    IN  [file |-> IF failed THEN file ELSE OkFile(SaveText(cfg.store)),
         cfg |-> cfg,
         lg |-> e.lg,
         calls |-> <<"save">> \o
                   (IF failed THEN <<"log.error:save_err">> ELSE <<>>) \o e.calls,
         raised |-> e.raised]

-----------------------------------------------------------------------------
(* The extension directories.                                              *)

EXTENSIONS_DEFAULT_DIR == "pyRevit/extensions"

\* The environment variables of the process.
Environ == "APPDATA" :> "C:/Users/user/AppData"

\* The paths of the model that hold a reference to an environment variable:
\* the variable and the text after the reference.
PathRefs == "%APPDATA%/ext" :> [var |-> "APPDATA", rest |-> "/ext"]

\* op.expandvars
ExpandVars(p) ==
    IF p \in DOMAIN PathRefs /\ PathRefs[p].var \in DOMAIN Environ
    THEN Environ[PathRefs[p].var] \o PathRefs[p].rest
    ELSE p

NoQuery == [dirs |-> <<>>, failing |-> {}]

\* core.userextensions can be read and iterated: it is a list.
ExtensionsReadable(store) ==
    /\ HasOption(store, "core", "userextensions")
    /\ store["core"]["userextensions"].t = "list"

\* PyRevitConfig.get_thirdparty_ext_root_dirs; op.expandvars raises on the
\* entries whose index is in `failing` (entries that are not strings).
ThirdpartyExtRootDirs(store, failing) ==
    IF ~ExtensionsReadable(store)
    THEN [dirs |-> <<>>, calls |-> <<"log.error:read_err">>]
    ELSE LET l == store["core"]["userextensions"].l
         IN  IF failing \cap DOMAIN l # {}
             THEN [dirs |-> <<>>, calls |-> <<"log.error:read_err">>]
             ELSE [dirs |-> [i \in DOMAIN l |-> ExpandVars(l[i])], calls |-> <<>>]

\* get_ext_root_dirs that returns the user paths as they are stored.
ExtRootDirsNotExpanded(store, failing) ==
    LET t == ThirdpartyExtRootDirs(store, failing)
    IN  [dirs |-> <<EXTENSIONS_DEFAULT_DIR>> \o
                  (IF t.calls = <<>> THEN store["core"]["userextensions"].l
                   ELSE <<>>),
         calls |-> t.calls, raised |-> FALSE]

\* PyRevitConfig.get_ext_root_dirs
ExtRootDirs(store, failing) ==
    LET t == ThirdpartyExtRootDirs(store, failing)
    IN  [dirs |-> <<EXTENSIONS_DEFAULT_DIR>> \o t.dirs,
         calls |-> t.calls, raised |-> FALSE]

-----------------------------------------------------------------------------
(* Defaults                                                                *)

CoreKeys == {"checkupdates", "autoupdate", "verbose", "debug", "filelogging",
             "startuplogtimeout", "userextensions", "compilecsharp",
             "compilevb", "loadbeta", "rocketmode"}

\* The hardcoded value of each core key.
HardcodedValue(k) ==
    CASE k = "checkupdates"      -> B(FALSE)
      [] k = "autoupdate"        -> B(FALSE)
      [] k = "verbose"           -> B(TRUE)
      [] k = "debug"             -> B(FALSE)
      [] k = "filelogging"       -> B(TRUE)
      [] k = "startuplogtimeout" -> I(10)
      [] k = "userextensions"    -> L(<<>>)
      [] k = "compilecsharp"     -> B(TRUE)
      [] k = "compilevb"         -> B(TRUE)
      [] k = "loadbeta"          -> B(FALSE)
      [] OTHER                   -> B(FALSE)

\* _set_hardcoded_config_values that keeps the values the section holds.
SetHardcodedKeepExisting(store) ==
    LET s == AddSection(store, "core")
    IN  [s EXCEPT !["core"] =
            [k \in (DOMAIN @) \cup CoreKeys |->
                IF k \in DOMAIN @ THEN @[k] ELSE HardcodedValue(k)]]

\* _set_hardcoded_config_values without its last assignment.
SetHardcodedSkipsRocketmode(store) ==
    LET s == AddSection(store, "core")
        keys == CoreKeys \ {"rocketmode"}
    IN  [s EXCEPT !["core"] =
            [k \in (DOMAIN @) \cup keys |->
                IF k \in keys THEN HardcodedValue(k) ELSE @[k]]]

\* _set_hardcoded_config_values on a fresh store: the other sections are lost.
SetHardcodedFreshStore(store) ==
    "core" :> [k \in CoreKeys |-> HardcodedValue(k)]

\* _set_hardcoded_config_values
SetHardcoded(store) ==
    LET s == AddSection(store, "core")
    IN  [s EXCEPT !["core"] =
            [k \in (DOMAIN @) \cup CoreKeys |->
                IF k \in CoreKeys THEN HardcodedValue(k) ELSE @[k]]]

-----------------------------------------------------------------------------
(* The upgrader: ordered steps, each adding a field the store lacks.       *)

UpgradeSteps == << [key |-> "startuplogtimeout", val |-> I(10)],
                   [key |-> "loadbeta", val |-> B(FALSE)] >>

RECURSIVE ApplySteps(_, _, _)
ApplySteps(store, i, failing) ==
    IF i > Len(UpgradeSteps) THEN store
    ELSE LET st == UpgradeSteps[i]
             next == IF i \in failing \/ HasOption(store, "core", st.key)
                     THEN store
                     ELSE SetOption(store, "core", st.key, st.val)
         IN  ApplySteps(next, i + 1, failing)

\* upgrade.upgrade_user_config: the steps in `failing` fail and are skipped.
UpgradeStore(store, failing) == ApplySteps(store, 1, failing)

-----------------------------------------------------------------------------
(* The files the model starts from.                                        *)

TxtEmpty == EmptyMap

TxtDebugOn ==
    "core" :> ("debug" :> "True" @@ "verbose" :> "False" @@ "filelogging" :> "True")

TxtQuiet ==
    "core" :> ("debug" :> "false" @@ "verbose" :> "false" @@ "filelogging" :> "false")

TxtNoDebug ==
    "core" :> ("verbose" :> "true" @@ "filelogging" :> "true")

TxtSeed == "core" :> ("rocketmode" :> "True")

TxtCustom ==
    "core" :> ("checkupdates" :> "true" @@ "autoupdate" :> "false" @@
               "verbose" :> "true" @@ "debug" :> "false" @@
               "filelogging" :> "junk" @@ "startuplogtimeout" :> "0" @@
               "userextensions" :> "[C:/ext,%APPDATA%/ext]" @@
               "compilecsharp" :> "true" @@ "compilevb" :> "true" @@
               "loadbeta" :> "true" @@ "rocketmode" :> "true")
    @@ "mytool" :> ("opt" :> "hello")

Paths == {"local", "shared", "legacy"}

LocalFiles == {NoFile, OkFile(TxtNoDebug)}
SharedFiles == {NoFile, CorruptFile, OkFile(TxtEmpty), OkFile(TxtDebugOn),
                OkFile(TxtCustom)}
LegacyFiles == {NoFile, OkFile(TxtQuiet)}

\* An entry of the admin directory: its name with its extension, its content.
Entry(name, file) == [name |-> name, file |-> file]

\* entry.endswith('.ini')
EndsWithIni(name) ==
    \E stem \in {"seed", "other"} : name = stem \o ".ini"

AdminDirs ==
    { [isdir |-> FALSE, entries |-> <<>>],
      [isdir |-> TRUE, entries |-> <<>>],
      [isdir |-> TRUE, entries |-> << Entry("readme.txt", OkFile(TxtQuiet)),
                                      Entry("seed.ini", OkFile(TxtSeed)) >>],
      [isdir |-> TRUE, entries |-> << Entry("seed.ini", OkFile(TxtSeed)),
                                      Entry("other.ini", OkFile(TxtDebugOn)) >>] }

InitLogger == [level |-> "default", filelogging |-> B(FALSE)]

Init ==
    /\ doc_mode \in BOOLEAN
    /\ forced_debug_mode \in BOOLEAN
    /\ \E lf \in LocalFiles, sf \in SharedFiles, gf \in LegacyFiles :
          fs = [p \in Paths |-> CASE p = "local" -> lf
                                  [] p = "shared" -> sf
                                  [] OTHER -> gf]
    /\ admin \in AdminDirs
    /\ CONFIG_FILE_PATH = "None"
    /\ pc = "resolve"
    /\ user_config = NoConfig
    /\ parser = NoConfig
    /\ lg = InitLogger
    /\ lastOp = "none"
    /\ calls = <<>>
    /\ opRaised = FALSE
    /\ nops = 0
    /\ hist = [fs0 |-> fs, rename |-> "none", seed |-> "none",
               loaded |-> [done |-> FALSE, fromFile |-> FALSE, store |-> EmptyMap],
               upgrade |-> "none"]
    /\ query = NoQuery

\* The file at a path; nothing is at the path None.
FileAt(files, path) == IF path \in Paths THEN files[path] ELSE NoFile

-----------------------------------------------------------------------------
(* Module initialization, statement by statement.                          *)

\* The resolution of the path without the check of the local file.
ResolvedPathIgnoresLocal(docMode, files) ==
    IF docMode THEN "None" ELSE "shared"

\* Lines 55-68: the resolved path.
ResolvedPath(docMode, files) ==
    IF docMode THEN "None"
    ELSE IF Exists(files["local"]) THEN "local"
    ELSE "shared"

ResolvePath ==
    /\ pc = "resolve"
    /\ CONFIG_FILE_PATH' = ResolvedPath(doc_mode, fs)
    /\ pc' = "rename"
    /\ lastOp' = "resolve"
    /\ calls' = IF doc_mode THEN <<>> ELSE <<"log.debug:config_file">>
    /\ opRaised' = FALSE
    /\ UNCHANGED <<doc_mode, forced_debug_mode, fs, admin, user_config, parser,
                   lg, nops, hist,
                   query>>

\* os.rename(src, dst) on Windows, the platform of the program: it fails when
\* the destination is None or exists, or when the filesystem refuses (ioFails).
RenameFails(files, dst, ioFails) ==
    ioFails \/ dst \notin Paths \/ Exists(FileAt(files, dst))

\* The fix of the obsolete name done by a copy: the old file stays.
RenameObsoleteKeepsOld(files, dst, ioFails) ==
    IF ~Exists(files["legacy"]) \/ RenameFails(files, dst, ioFails)
    THEN files
    ELSE [files EXCEPT ![dst] = files["legacy"]]

\* The fix of the obsolete name by a rename that replaces the destination.
RenameObsoleteOverwrites(files, dst, ioFails) ==
    IF ~Exists(files["legacy"]) \/ ioFails \/ dst \notin Paths
    THEN files
    ELSE [files EXCEPT ![dst] = files["legacy"], !["legacy"] = NoFile]

\* Lines 82-96: the files after the fix of the obsolete file name.
RenameObsolete(files, dst, ioFails) ==
    IF ~Exists(files["legacy"]) \/ RenameFails(files, dst, ioFails)
    THEN files
    ELSE [files EXCEPT ![dst] = files["legacy"], !["legacy"] = NoFile]

FixObsoleteName ==
    /\ pc = "rename"
    /\ \E ioFails \in BOOLEAN :
          /\ fs' = RenameObsolete(fs, CONFIG_FILE_PATH, ioFails)
          /\ calls' = IF ~Exists(fs["legacy"]) THEN <<>>
                      ELSE IF RenameFails(fs, CONFIG_FILE_PATH, ioFails)
                           THEN <<"os.rename", "log.error:rename_err">>
                           ELSE <<"os.rename">>
          /\ hist' = [hist EXCEPT !.rename =
                        IF ~Exists(fs["legacy"]) THEN "skipped"
                        ELSE IF RenameFails(fs, CONFIG_FILE_PATH, ioFails)
                             THEN "failed" ELSE "ok"]
    /\ pc' = IF doc_mode THEN "bind_none" ELSE "admin"
    /\ lastOp' = "rename"
    /\ opRaised' = FALSE
    /\ UNCHANGED <<doc_mode, forced_debug_mode, admin, CONFIG_FILE_PATH,
                   user_config, parser, lg, nops,
                   query>>

\* The first entry of the listing that ends with .ini, 0 when there is none.
RECURSIVE FirstIni(_, _)
FirstIni(entries, i) ==
    IF i > Len(entries) THEN 0
    ELSE IF EndsWithIni(entries[i].name) THEN i
    ELSE FirstIni(entries, i + 1)

\* _setup_admin_config without the check that no file is at the path.
SetupAdminConfigAlwaysCopies(files, dir, dst, listFails, copyFails) ==
    IF ~dir.isdir
    THEN [files |-> files, calls |-> <<>>, raised |-> FALSE]
    ELSE IF listFails
    THEN [files |-> files, calls |-> <<"os.listdir">>, raised |-> TRUE]
    ELSE LET i == FirstIni(dir.entries, 1)
         IN  IF i = 0
             THEN [files |-> files, calls |-> <<"os.listdir">>, raised |-> FALSE]
             ELSE IF copyFails
             THEN [files |-> files,
                   calls |-> <<"os.listdir", "shutil.copyfile", "log.debug:copy_err">>,
                   raised |-> FALSE]
             ELSE [files |-> [files EXCEPT ![dst] = dir.entries[i].file],
                   calls |-> <<"os.listdir", "shutil.copyfile", "log.debug:configured">>,
                   raised |-> FALSE]

\* _setup_admin_config: the files it leaves, its calls, and whether it raised.
SetupAdminConfig(files, dir, dst, listFails, copyFails) ==
    IF Exists(FileAt(files, dst)) \/ ~dir.isdir
    THEN [files |-> files, calls |-> <<>>, raised |-> FALSE]
    ELSE IF listFails
    THEN [files |-> files, calls |-> <<"os.listdir">>, raised |-> TRUE]
    ELSE LET i == FirstIni(dir.entries, 1)
         IN  IF i = 0
             THEN [files |-> files, calls |-> <<"os.listdir">>, raised |-> FALSE]
             ELSE IF copyFails
             THEN [files |-> files,
                   calls |-> <<"os.listdir", "shutil.copyfile", "log.debug:copy_err">>,
                   raised |-> FALSE]
             ELSE [files |-> [files EXCEPT ![dst] = dir.entries[i].file],
                   calls |-> <<"os.listdir", "shutil.copyfile", "log.debug:configured">>,
                   raised |-> FALSE]

\* Line 263
SetupAdmin ==
    /\ pc = "admin"
    /\ \E listFails \in BOOLEAN, copyFails \in BOOLEAN :
          LET r == SetupAdminConfig(fs, admin, CONFIG_FILE_PATH, listFails, copyFails)
          IN  /\ fs' = r.files
              /\ calls' = r.calls
              /\ opRaised' = r.raised
              /\ pc' = IF r.raised THEN "raised" ELSE "load"
              /\ hist' = [hist EXCEPT !.seed =
                            IF "shutil.copyfile" \notin Range(r.calls) THEN "skipped"
                            ELSE IF r.files = fs THEN "failed" ELSE "ok"]
    /\ lastOp' = "setup_admin"
    /\ UNCHANGED <<doc_mode, forced_debug_mode, admin, CONFIG_FILE_PATH,
                   user_config, parser, lg, nops,
                   query>>

\* Line 268: user_config = PyRevitConfig(cfg_file_path=CONFIG_FILE_PATH)
LoadUserConfig ==
    /\ pc = "load"
    /\ LET r == Construct(CONFIG_FILE_PATH, FileAt(fs, CONFIG_FILE_PATH),
                          forced_debug_mode, lg)
       IN  /\ user_config' = IF r.raised THEN user_config ELSE r.cfg
           /\ lg' = r.lg
           /\ calls' = r.calls
           /\ opRaised' = r.raised
           /\ pc' = IF r.raised THEN "touch" ELSE "upgrade"
           /\ hist' = [hist EXCEPT !.loaded =
                         [done |-> ~r.raised,
                          fromFile |-> ~r.raised /\ Exists(FileAt(fs, CONFIG_FILE_PATH)),
                          store |-> r.cfg.store]]
    /\ lastOp' = "construct"
    /\ UNCHANGED <<doc_mode, forced_debug_mode, fs, admin, CONFIG_FILE_PATH,
                   parser, nops,
                   query>>

\* The files after a save of the config cfg gave the file `file`.
Written(files, cfg, file) ==
    IF cfg.path \in Paths THEN [files EXCEPT ![cfg.path] = file] ELSE files

\* A module body that calls the default initializer whatever the try did.
AfterUpgradeAlwaysDefaults(raises) == "touch"

\* Lines 267-273: the default initializer is called from the except branch
\* only; when the try block completes, the module body is over.
AfterUpgrade(raises) == IF raises THEN "touch" ELSE "done"

\* Line 269: upgrade.upgrade_user_config(user_config). It raises (the case
\* the handler of line 270 takes), or it runs its steps (those in `failing`
\* are skipped) and saves the result back.
UpgradeUserConfig ==
    /\ pc = "upgrade"
    /\ \E raises \in BOOLEAN, failing \in SUBSET (1..Len(UpgradeSteps)),
          saveFails \in BOOLEAN :
          IF raises
          THEN /\ pc' = AfterUpgrade(TRUE)
               /\ calls' = <<"log.debug:cfg_err">>
               /\ opRaised' = TRUE
               /\ hist' = [hist EXCEPT !.upgrade = "raised"]
               /\ UNCHANGED <<user_config, fs, lg>>
          ELSE LET up == [user_config EXCEPT !.store = UpgradeStore(@, failing)]
                   r == SaveChangesOp(up, FileAt(fs, up.path), saveFails,
                                      forced_debug_mode, lg)
               IN  /\ user_config' = r.cfg
                   /\ fs' = Written(fs, up, r.file)
                   /\ lg' = r.lg
                   /\ calls' = r.calls
                   /\ opRaised' = r.raised
                   /\ pc' = AfterUpgrade(FALSE)
                   /\ hist' = [hist EXCEPT !.upgrade =
                                 IF failing = {} THEN "ok" ELSE "skipped"]
    /\ lastOp' = "upgrade"
    /\ UNCHANGED <<doc_mode, forced_debug_mode, admin, CONFIG_FILE_PATH, parser,
                   nops,
                   query>>

\* touch(path): the file it leaves at the path.
Touched(file) == IF Exists(file) THEN file ELSE OkFile(TxtEmpty)

\* Line 222 of _get_default_config_parser, called at line 273.
TouchConfigFile ==
    /\ pc = "touch"
    /\ \E touchFails \in BOOLEAN :
          IF touchFails
          THEN /\ pc' = "raised"
               /\ opRaised' = TRUE
               /\ UNCHANGED fs
          ELSE /\ pc' = "mkparser"
               /\ opRaised' = FALSE
               /\ fs' = [fs EXCEPT ![CONFIG_FILE_PATH] = Touched(@)]
    /\ lastOp' = "touch"
    /\ calls' = <<"log.debug:creating_default", "touch">>
    /\ UNCHANGED <<doc_mode, forced_debug_mode, admin, CONFIG_FILE_PATH,
                   user_config, parser, lg, nops, hist,
                   query>>

\* Lines 224-230: the parser on the path, or the parser without a file.
DefaultParser(path, file, forced, l0) ==
    LET r == Construct(path, file, forced, l0)
        m == Construct("None", NoFile, forced, l0)
    IN  IF r.raised
        THEN [m EXCEPT !.calls = r.calls \o <<"log.warning:read_err">> \o @]
        ELSE r

MakeDefaultParser ==
    /\ pc = "mkparser"
    /\ LET r == DefaultParser(CONFIG_FILE_PATH, FileAt(fs, CONFIG_FILE_PATH),
                              forced_debug_mode, lg)
       IN  /\ parser' = r.cfg
           /\ lg' = r.lg
           /\ calls' = r.calls
           /\ opRaised' = r.raised
    /\ pc' = "hardcoded"
    /\ lastOp' = "construct"
    /\ UNCHANGED <<doc_mode, forced_debug_mode, fs, admin, CONFIG_FILE_PATH,
                   user_config, nops, hist,
                   query>>

\* Line 233
SetHardcodedValues ==
    /\ pc = "hardcoded"
    /\ parser' = [parser EXCEPT !.store = SetHardcoded(@)]
    /\ pc' = "save"
    /\ lastOp' = "set_hardcoded"
    /\ calls' = <<>>
    /\ opRaised' = FALSE
    /\ UNCHANGED <<doc_mode, forced_debug_mode, fs, admin, CONFIG_FILE_PATH,
                   user_config, lg, nops, hist,
                   query>>

\* Lines 236-240 and the binding of line 273.
SaveDefaultConfig ==
    /\ pc = "save"
    /\ \E saveFails \in BOOLEAN :
          LET r == SaveChangesOp(parser, FileAt(fs, parser.path), saveFails,
                                 forced_debug_mode, lg)
          IN  /\ fs' = Written(fs, parser, r.file)
              /\ lg' = r.lg
              /\ calls' = r.calls \o <<"log.debug:default_saved">>
              /\ opRaised' = r.raised
              /\ user_config' = r.cfg
    /\ pc' = "done"
    /\ lastOp' = "save_changes"
    /\ UNCHANGED <<doc_mode, forced_debug_mode, admin, CONFIG_FILE_PATH, parser,
                   nops, hist,
                   query>>

\* Line 275: user_config = None in doc mode.
BindNone ==
    /\ pc = "bind_none"
    /\ user_config' = NoneConfig
    /\ pc' = "done"
    /\ lastOp' = "bind_none"
    /\ calls' = <<>>
    /\ opRaised' = FALSE
    /\ UNCHANGED <<doc_mode, forced_debug_mode, fs, admin, CONFIG_FILE_PATH,
                   parser, lg, nops, hist,
                   query>>

-----------------------------------------------------------------------------
(* Callers of user_config after initialization.                            *)

SetKeys == {"debug", "verbose", "filelogging"}
SetValues == {B(TRUE), B(FALSE)}

\* user_config.core.<key> = value
SetValue ==
    /\ pc = "done"
    /\ user_config.kind = "cfg"
    /\ nops < MaxOps
    /\ \E k \in SetKeys, v \in SetValues :
          user_config' = [user_config EXCEPT !.store = SetOption(@, "core", k, v)]
    /\ nops' = nops + 1
    /\ lastOp' = "set"
    /\ calls' = <<>>
    /\ opRaised' = FALSE
    /\ UNCHANGED <<doc_mode, forced_debug_mode, fs, admin, CONFIG_FILE_PATH, pc,
                   parser, lg, hist,
                   query>>

\* user_config.save_changes()
SaveChanges ==
    /\ pc = "done"
    /\ user_config.kind = "cfg"
    /\ nops < MaxOps
    /\ \E saveFails \in BOOLEAN :
          LET r == SaveChangesOp(user_config, FileAt(fs, user_config.path),
                                 saveFails, forced_debug_mode, lg)
          IN  /\ fs' = Written(fs, user_config, r.file)
              /\ lg' = r.lg
              /\ calls' = r.calls
              /\ opRaised' = r.raised
              /\ user_config' = r.cfg
    /\ nops' = nops + 1
    /\ lastOp' = "save_changes"
    /\ UNCHANGED <<doc_mode, forced_debug_mode, admin, CONFIG_FILE_PATH, pc,
                   parser, hist,
                   query>>

\* The entries of core.userextensions, when it is a list.
ExtensionEntries(store) ==
    IF ExtensionsReadable(store)
    THEN DOMAIN store["core"]["userextensions"].l ELSE {}

\* user_config.get_ext_root_dirs()
GetExtRootDirs ==
    /\ pc = "done"
    /\ user_config.kind = "cfg"
    /\ nops < MaxOps
    /\ \E failing \in SUBSET ExtensionEntries(user_config.store) :
          LET r == ExtRootDirs(user_config.store, failing)
          IN  /\ query' = [dirs |-> r.dirs, failing |-> failing]
              /\ calls' = r.calls
              /\ opRaised' = r.raised
    /\ nops' = nops + 1
    /\ lastOp' = "get_ext_root_dirs"
    /\ UNCHANGED <<doc_mode, forced_debug_mode, fs, admin, CONFIG_FILE_PATH, pc,
                   user_config, parser, lg, hist>>

Next ==
    \/ ResolvePath
    \/ FixObsoleteName
    \/ SetupAdmin
    \/ LoadUserConfig
    \/ UpgradeUserConfig
    \/ TouchConfigFile
    \/ MakeDefaultParser
    \/ SetHardcodedValues
    \/ SaveDefaultConfig
    \/ BindNone
    \/ SetValue
    \/ SaveChanges
    \/ GetExtRootDirs

Spec == Init /\ [][Next]_vars

-----------------------------------------------------------------------------
(* Properties                                                              *)

\* The store the last run of the synchronizer read.
SyncStore ==
    IF lastOp = "construct" /\ pc = "hardcoded" THEN parser.store
    ELSE user_config.store

\* The last step ran the synchronizer.
EnvRan ==
    /\ lastOp \in {"construct", "save_changes", "upgrade"}
    /\ "reset_level" \in Range(calls)

CoreIs(store, key, val) ==
    HasOption(store, "core", key) /\ store["core"][key] = val

\* C1: without forced debug mode, a run of the synchronizer ends with the
\* level decided by stored debug first and stored verbose second: debug true
\* gives the debug level, debug false and verbose true the verbose level,
\* both false the reset default level.
C1_LevelByDebugThenVerbose ==
    (EnvRan /\ ~forced_debug_mode) =>
        /\ CoreIs(SyncStore, "debug", B(TRUE)) => lg.level = "debug"
        /\ (CoreIs(SyncStore, "debug", B(FALSE)) /\ CoreIs(SyncStore, "verbose", B(TRUE)))
              => lg.level = "verbose"
        /\ (CoreIs(SyncStore, "debug", B(FALSE)) /\ CoreIs(SyncStore, "verbose", B(FALSE)))
              => lg.level = "default"

C1_Witness ==
    /\ EnvRan /\ ~forced_debug_mode
    /\ CoreIs(SyncStore, "debug", B(TRUE))
    /\ CoreIs(SyncStore, "verbose", B(TRUE))
    /\ lg.level = "debug"

C3_OneSyncRunPerOperation ==
    (lastOp \in {"construct", "save_changes"} /\ ~opRaised) =>
        /\ Count(calls, "reset_level") = 1
        /\ \A i \in DOMAIN calls :
              calls[i] \in {"set_debug_mode", "set_verbose_mode", "set_file_logging"}
                 => \E j \in 1..(i - 1) : calls[j] = "reset_level"

C3_Witness ==
    /\ lastOp = "save_changes"
    /\ "log.error:save_err" \in Range(calls)
    /\ Count(calls, "reset_level") = 1

\* C4 as stated: in every run of the synchronizer where core.filelogging is
\* readable, file logging is set to that value, whatever the forced debug
\* mode and whether core.debug and core.verbose are present or not.
C4_FileLoggingAlwaysApplied ==
    (EnvRan /\ HasOption(SyncStore, "core", "filelogging")) =>
        /\ "set_file_logging" \in Range(calls)
        /\ lg.filelogging = SyncStore["core"]["filelogging"]

\* C5: a save_changes whose write fails logs the error once, returns
\* normally, saves once, and leaves the store as it was before the call.
C5_SaveFailureContained ==
    [][ (lastOp' = "save_changes" /\ "log.error:save_err" \in Range(calls')) =>
          /\ ~opRaised'
          /\ Count(calls', "save") = 1
          /\ Count(calls', "log.error:save_err") = 1
          /\ user_config'.store = (IF pc = "save" THEN parser.store
                                   ELSE user_config.store) ]_vars

C5_Witness ==
    /\ lastOp = "save_changes"
    /\ pc = "done" /\ nops > 0
    /\ "log.error:save_err" \in Range(calls)
    /\ ~opRaised
    /\ DOMAIN user_config.store # {}

\* C6: a construction (whose file could be loaded) and a save_changes do not
\* raise when one of core.debug, core.verbose, core.filelogging cannot be read.
C6_UnreadableKeysNeverBlock ==
    ( /\ lastOp \in {"construct", "save_changes"}
      /\ "reset_level" \in Range(calls)
      /\ \E k \in {"debug", "verbose", "filelogging"} :
            ~HasOption(SyncStore, "core", k) )
    => (~opRaised /\ pc # "raised")

C6_Witness ==
    /\ lastOp = "construct"
    /\ ~HasSection(SyncStore, "core")
    /\ "log.debug:env_update_err" \in Range(calls)
    /\ ~opRaised

\* The initialization attempted the copy of an admin seed file that sets
\* rocketmode = True in core and nothing else.
SeedIsRocket ==
    /\ hist.seed \in {"ok", "failed"}
    /\ admin.entries[FirstIni(admin.entries, 1)].file = OkFile(TxtSeed)

InitDone == pc = "done" /\ nops = 0

UpgradeKeys == {UpgradeSteps[i].key : i \in DOMAIN UpgradeSteps}

C8_InitNeverRaises ==
    /\ pc # "raised"
    /\ (pc = "done" /\ ~doc_mode) => user_config.kind = "cfg"

\* Every field of the store `old` is in the store `new` with the same value.
Preserved(old, new) ==
    \A s \in DOMAIN old :
        /\ s \in DOMAIN new
        /\ \A k \in DOMAIN old[s] : k \in DOMAIN new[s] /\ new[s][k] = old[s][k]

\* C9 as stated: when the upgrade fails on a store loaded from an existing
\* file, the loaded fields are unmodified in user_config and in the file.
C9_UpgradeFailureKeepsFields ==
    (InitDone /\ hist.loaded.fromFile /\ hist.upgrade \in {"skipped", "raised"}) =>
        /\ Preserved(hist.loaded.store, user_config.store)
        /\ LET f == FileAt(fs, CONFIG_FILE_PATH)
           IN  f.kind = "ok" /\ Preserved(hist.loaded.store, LoadText(f.text))

\* The legacy file existed and no file was at the resolved path when the
\* initialization started; the rename step is over, the load is not.
C10_Scenario ==
    /\ ~doc_mode
    /\ pc \in {"admin", "load"}
    /\ Exists(hist.fs0["legacy"])
    /\ ~Exists(FileAt(hist.fs0, CONFIG_FILE_PATH))

LegacyMoved ==
    /\ FileAt(fs, CONFIG_FILE_PATH) = hist.fs0["legacy"]
    /\ ~Exists(fs["legacy"])

\* C10 as stated: with the legacy file at the old location and no file at the
\* resolved path, after resolution the resolved path holds the legacy file's
\* bytes and the old location no longer exists.
C10_LegacyAlwaysMoved == C10_Scenario => LegacyMoved

\* C10 amended: the same, provided the filesystem does not refuse the rename;
\* when it does, the legacy file stays at the old location.
C10_LegacyMovedUnlessRefused ==
    C10_Scenario =>
        IF hist.rename = "failed"
        THEN fs["legacy"] = hist.fs0["legacy"]
        ELSE LegacyMoved

C10_Witness ==
    /\ C10_Scenario /\ hist.rename = "ok" /\ LegacyMoved
    /\ FileAt(fs, CONFIG_FILE_PATH) = OkFile(TxtQuiet)

\* C11: when the rename of the legacy file fails, the error is logged, no
\* file changes (the legacy file and the file at the resolved path keep
\* their content), nothing is raised and the initialization goes on to its
\* next step, the admin seed.
C11_RenameFailureLeavesFiles ==
    [][ (pc = "rename" /\ lastOp' = "rename" /\ hist'.rename = "failed") =>
          /\ fs' = fs
          /\ "log.error:rename_err" \in Range(calls')
          /\ ~opRaised'
          /\ pc' = (IF doc_mode THEN "bind_none" ELSE "admin") ]_vars

C11_Witness ==
    /\ hist.rename = "failed" /\ pc = "load"
    /\ Exists(hist.fs0["shared"])
    /\ fs["legacy"] = OkFile(TxtQuiet)
    /\ fs["shared"] = hist.fs0["shared"]

\* C12: when a local override file exists at initialization (outside doc
\* mode), the resolved path is the local path, the store loaded is the
\* content the local file had, no legacy file is renamed onto it, no admin
\* seed is copied, and the file is untouched until the upgrade.
C12_LocalOverrideExclusive ==
    (~doc_mode /\ Exists(hist.fs0["local"]) /\ pc # "resolve") =>
        /\ CONFIG_FILE_PATH = "local"
        /\ hist.rename # "ok"
        /\ hist.seed \in {"none", "skipped"}
        /\ hist.loaded.done =>
              hist.loaded.store = LoadText(hist.fs0["local"].text)
        /\ pc \in {"rename", "admin", "load", "upgrade"} =>
              fs["local"] = hist.fs0["local"]

C12_Witness ==
    /\ ~doc_mode /\ hist.loaded.done
    /\ Exists(hist.fs0["local"]) /\ Exists(hist.fs0["shared"])
    /\ Exists(hist.fs0["legacy"])
    /\ Len(admin.entries) > 0
    /\ user_config.path = "local"
    /\ CoreIs(hist.loaded.store, "verbose", B(TRUE))

\* Outside doc mode, no file was at the resolved path when it was loaded:
\* none was there at the start, none was renamed or copied to it.
NoFileAtLoad ==
    /\ ~doc_mode
    /\ ~Exists(FileAt(hist.fs0, CONFIG_FILE_PATH))
    /\ hist.rename # "ok"
    /\ hist.seed # "ok"

\* The core section of the store holds exactly the 11 hardcoded defaults.
CoreIsDefaults(store) ==
    /\ HasSection(store, "core")
    /\ DOMAIN store["core"] = CoreKeys
    /\ \A k \in CoreKeys : store["core"][k] = HardcodedValue(k)

\* The default initializer ran and returned the store user_config is bound to.
DefaultInitializerReturned == pc = "done" /\ parser.kind = "cfg"

\* C13 as stated: with no file at the resolved path, initialization yields a
\* store whose core holds exactly the 11 defaults, a file exists at the
\* resolved path, and loading that file gives the same 11 values.
C13_BootstrapYieldsDefaults ==
    (InitDone /\ NoFileAtLoad) =>
        /\ CoreIsDefaults(user_config.store)
        /\ LET f == FileAt(fs, CONFIG_FILE_PATH)
           IN  f.kind = "ok" /\ CoreIsDefaults(LoadText(f.text))

\* C14 as stated: the default initializer never raises, also when the file
\* cannot be created, and the store it returns holds the 11 defaults.
C14_DefaultInitializerAlwaysReturns ==
    /\ lastOp = "touch" => ~opRaised
    /\ (DefaultInitializerReturned /\ nops = 0) =>
          \A k \in CoreKeys : CoreIs(user_config.store, k, HardcodedValue(k))

\* C15 as stated: the seed is copied only when no file is at the resolved
\* path and the admin directory holds a .ini file, the first such entry is
\* copied verbatim, a file already at the resolved path is not overwritten,
\* and when the copy fails the user ends with the bootstrapped defaults.
C15_SeedCopyThenDefaults ==
    /\ (pc = "load" /\ hist.seed = "ok") =>
          /\ ~Exists(FileAt(hist.fs0, CONFIG_FILE_PATH))
          /\ admin.isdir /\ FirstIni(admin.entries, 1) # 0
          /\ FileAt(fs, CONFIG_FILE_PATH) =
                admin.entries[FirstIni(admin.entries, 1)].file
    /\ (pc = "load" /\ Exists(FileAt(hist.fs0, CONFIG_FILE_PATH))) =>
          /\ hist.seed = "skipped"
          /\ FileAt(fs, CONFIG_FILE_PATH) = FileAt(hist.fs0, CONFIG_FILE_PATH)
    /\ (InitDone /\ hist.seed = "failed") =>
          CoreIsDefaults(user_config.store)

\* The entries of the list l, expanded, without those whose index is in
\* `failing`, from index i on.
RECURSIVE ExpandedExcept(_, _, _)
ExpandedExcept(l, failing, i) ==
    IF i > Len(l) THEN <<>>
    ELSE (IF i \in failing THEN <<>> ELSE <<ExpandVars(l[i])>>)
         \o ExpandedExcept(l, failing, i + 1)

\* The list of core.userextensions, empty when it cannot be read.
UserExtensions(store) ==
    IF ExtensionsReadable(store) THEN store["core"]["userextensions"].l ELSE <<>>

\* C16 as stated: get_ext_root_dirs returns the built-in directory, then the
\* paths of core.userextensions expanded, in order, without the entries
\* whose expansion failed, and it never raises.
C16_FailedEntryDropped ==
    lastOp = "get_ext_root_dirs" =>
        /\ ~opRaised
        /\ query.dirs = <<EXTENSIONS_DEFAULT_DIR>> \o
              ExpandedExcept(UserExtensions(user_config.store), query.failing, 1)

\* C16 amended: get_ext_root_dirs never raises and returns the built-in
\* directory first; it is followed by every path of core.userextensions,
\* expanded and in order, when the list is read and every entry expands;
\* when the read or the expansion of any entry fails, the error is logged
\* and no user path at all is returned.
C16_ExtDirsAllOrNone ==
    lastOp = "get_ext_root_dirs" =>
        /\ ~opRaised
        /\ IF ExtensionsReadable(user_config.store) /\ query.failing = {}
           THEN /\ query.dirs = <<EXTENSIONS_DEFAULT_DIR>> \o
                      ExpandedExcept(UserExtensions(user_config.store), {}, 1)
                /\ calls = <<>>
           ELSE /\ query.dirs = <<EXTENSIONS_DEFAULT_DIR>>
                /\ "log.error:read_err" \in Range(calls)

C16_Witness ==
    /\ lastOp = "get_ext_root_dirs"
    /\ query.failing = {}
    /\ query.dirs = <<EXTENSIONS_DEFAULT_DIR, "C:/ext", "C:/Users/user/AppData/ext">>

\* The keys of the core section of a store.
CoreKeysOf(store) == IF HasSection(store, "core") THEN DOMAIN store["core"] ELSE {}

C18_Scenario ==
    /\ InitDone /\ DefaultInitializerReturned
    /\ hist.loaded.fromFile
    /\ DOMAIN hist.loaded.store \ {"core"} # {}

\* The sections other than core are those of the file, core holds the 11
\* defaults.
OnlyCoreOverwritten ==
    /\ \A sec \in DOMAIN hist.loaded.store \ {"core"} :
          /\ HasSection(user_config.store, sec)
          /\ user_config.store[sec] = hist.loaded.store[sec]
    /\ DOMAIN user_config.store = DOMAIN hist.loaded.store \cup {"core"}
    /\ \A k \in CoreKeys : CoreIs(user_config.store, k, HardcodedValue(k))

ResolvedFileHolds(store) ==
    LET f == FileAt(fs, CONFIG_FILE_PATH)
    IN  f.kind = "ok" /\ LoadText(f.text) = store

\* C18 as stated: after the default initializer ran on a file that holds
\* other sections, these sections are as in the file, core holds the 11
\* defaults, and the result has been persisted to the path.
C18_CoreOverwrittenAndPersisted ==
    C18_Scenario =>
        (OnlyCoreOverwritten /\ ResolvedFileHolds(user_config.store))

\* C18 amended: the same, the result being persisted when the write
\* succeeds; when it fails the file keeps the content it had.
C18_CoreOverwrittenPersistedIfWritable ==
    C18_Scenario =>
        /\ OnlyCoreOverwritten
        /\ IF "log.error:save_err" \in Range(calls)
           THEN ResolvedFileHolds(hist.loaded.store)
           ELSE ResolvedFileHolds(user_config.store)

C18_Witness ==
    /\ C18_Scenario
    /\ "log.error:save_err" \notin Range(calls)
    /\ HasOption(user_config.store, "mytool", "opt")
    /\ user_config.store["mytool"]["opt"] = S("hello")
    /\ CoreIs(hist.loaded.store, "rocketmode", B(TRUE))
    /\ CoreIs(user_config.store, "rocketmode", B(FALSE))
    /\ ResolvedFileHolds(user_config.store)

\* C19: in an initialization the legacy rename is attempted at most once,
\* the admin copy at most once and only after the rename step, both are over
\* before the first load and before user_config is bound, and a legacy file
\* that was renamed is not replaced by an admin seed.
C19_SideEffectsOnceInOrder ==
    [][ /\ hist.rename # "none" =>
              (hist'.rename = hist.rename /\ "os.rename" \notin Range(calls'))
        /\ hist.seed # "none" =>
              (hist'.seed = hist.seed /\ "shutil.copyfile" \notin Range(calls'))
        /\ Count(calls', "os.rename") <= 1
        /\ Count(calls', "shutil.copyfile") <= 1
        /\ hist'.seed # "none" => hist.rename # "none"
        /\ "load" \in Range(calls') =>
              (hist.rename # "none" /\ hist.seed # "none")
        /\ user_config'.kind # "unbound" =>
              (hist.rename # "none" /\ (~doc_mode => hist.seed # "none"))
        /\ hist'.rename = "ok" =>
              /\ hist'.seed \in {"none", "skipped"}
              /\ pc' \in {"admin", "load"} =>
                    FileAt(fs', CONFIG_FILE_PATH) = hist.fs0["legacy"] ]_vars

C19_Witness ==
    /\ pc = "done" /\ user_config.kind = "cfg"
    /\ hist.rename = "ok" /\ hist.seed = "skipped"
    /\ admin.isdir /\ FirstIni(admin.entries, 1) # 0
    /\ hist.loaded.store = LoadText(TxtQuiet)

\* The first load and the upgrade of initialization both completed.
LoadAndUpgradeSucceeded ==
    InitDone /\ hist.loaded.done /\ hist.upgrade \in {"ok", "skipped"}

\* C20: when the load of the file at the resolved path and its upgrade both
\* succeed, initialization does not call the default initializer: every
\* loaded value is still in user_config, and user_config has no section and
\* no core key beyond the loaded ones and those the upgrader adds.
C20_DefaultsOnlyOnFailurePath ==
    LoadAndUpgradeSucceeded =>
        /\ parser.kind = "unbound"
        /\ hist.rename # "none"
        /\ user_config.kind = "cfg"
        /\ Preserved(hist.loaded.store, user_config.store)
        /\ DOMAIN user_config.store \subseteq DOMAIN hist.loaded.store \cup {"core"}
        /\ CoreKeysOf(user_config.store) \subseteq
               CoreKeysOf(hist.loaded.store) \cup UpgradeKeys

C20_Witness ==
    /\ LoadAndUpgradeSucceeded
    /\ hist.loaded.store = LoadText(TxtDebugOn)
    /\ CoreIs(user_config.store, "debug", B(TRUE))
    /\ ~HasOption(user_config.store, "core", "rocketmode")

====
